---- MODULE Spec2Model ----
(***************************************************************************)
(* Model of depth/loader.go: the CCDepthLoader store (Load, Tick,          *)
(* GetDepth), its cache files and the day fetch it is built on.            *)
(*                                                                         *)
(* Time is counted in seconds since the epoch.  A minute has SecPerMin     *)
(* seconds and a day MinPerDay minutes: the clock is scaled down so that   *)
(* a full day of per-second rows is a short sequence; every length of the  *)
(* code is kept as an expression of these two (a day fetch yields          *)
(* numbersPerRecord * minutesInADay tokens, and so on).                    *)
(***************************************************************************)
EXTENDS Integers, Sequences, FiniteSets, TLC

\* ---------------------------------------------------------------- bounds
SecPerMin == 2      \* seconds in a minute of the scaled clock (time.Minute)
MinPerDay == 3      \* minutes in a day of the scaled clock
MaxPairs  == 2      \* longest pair list passed to Load
MaxTicks  == 3      \* Tick calls followed per store

\* ------------------------------------------------------ program constants
numbersPerRecord == 4

minutesInADay == MinPerDay

SecPerDay == SecPerMin * MinPerDay

\* math.Abs(fileHistoryLength - historyLength) >= 1400: the band is a little
\* under one day (1400 of 1440 minutes), here one minute under a day.
RangeTolerance == minutesInADay - 1

defaultPairs ==
    << "ADA-BUSD", "BCH-BUSD", "BNB-BUSD", "BTC-BUSD", "DOGE-BUSD", "DOT-BUSD",
       "EOS-BUSD", "ETH-BUSD", "LTC-BUSD", "SOL-BUSD", "UNI-BUSD", "XRP-BUSD" >>

\* ------------------------------------------------------------ sequences
Range(s) == { s[i] : i \in 1..Len(s) }

Contains(s, x) == \E i \in 1..Len(s) : s[i] = x

RECURSIVE Concat(_)
\* slices.Concat: the sequences of ss, one after the other
Concat(ss) == IF ss = << >> THEN << >> ELSE Head(ss) \o Concat(Tail(ss))

\* ------------------------------------------------- the upstream (remote)
\* The pairs the callers of the model ask for by name.  BTC-BUSD has data on
\* every day, ETH-BUSD on day 0 only, every other pair on no day.
ReqPairs == { "BTC-BUSD", "ETH-BUSD" }

PairNo(pair) == CHOOSE i \in 1..Len(defaultPairs) : defaultPairs[i] = pair

HasData(pair, day) ==
    \/ pair = "BTC-BUSD"
    \/ pair = "ETH-BUSD" /\ day = 0

\* The number behind a token: distinct per pair, second and column.
Val(pair, t, col) == PairNo(pair) * 100 + t * 4 + col

\* One CSV row of the day file: time_seconds, bid price_size, ask price_size.
\* A price_size field is kept as the sequence of its "_"-separated parts.
Row(pair, t) ==
    << ToString(t),
       << ToString(Val(pair, t, 1)), ToString(Val(pair, t, 2)) >>,
       << ToString(Val(pair, t, 3)), ToString(Val(pair, t, 4)) >> >>

HeaderRow == << "time_seconds", << "bid_price_size" >>, << "ask_price_size" >> >>

\* The rows of the file the remote serves for pair and day: the header row,
\* then one row per second of the day, or the header row alone.
RemoteRows(pair, day) ==
    IF HasData(pair, day)
    THEN << HeaderRow >> \o [ i \in 1..SecPerDay |-> Row(pair, day * SecPerDay + i - 1) ]
    ELSE << HeaderRow >>

\* --------------------------------------------------------- downloadDay
MaxSec == 3 * SecPerDay    \* past the last second any range reaches

\* strconv.ParseInt(record[0], 10, 64) with the error dropped: 0 on failure
ParseInt(s) ==
    IF \E n \in 0..MaxSec : ToString(n) = s
    THEN CHOOSE n \in 0..MaxSec : ToString(n) = s
    ELSE 0

NoTime == -1    \* the zero time.Time

\* a slip: the minutes between two rows are not filled
GapFillNone(prevRecordTime, timeSeconds, prevRecord, minuteRecords) ==
    [ prevRecordTime |-> prevRecordTime, recs |-> minuteRecords ]

RECURSIVE GapFill(_, _, _, _)
\* for prevRecordTime.Add(time.Minute).Before(timeSeconds) { ... }
GapFill(prevRecordTime, timeSeconds, prevRecord, minuteRecords) ==
    IF prevRecordTime + SecPerMin < timeSeconds
    THEN GapFill(prevRecordTime + SecPerMin, timeSeconds, prevRecord,
                 Append(minuteRecords, prevRecord))
    ELSE [ prevRecordTime |-> prevRecordTime, recs |-> minuteRecords ]

RECURSIVE ReadRows(_, _, _, _, _)
\* the for loop of downloadDay over the rows of the CSV reader
ReadRows(rows, i, prevRecord, prevRecordTime, minuteRecords) ==
    IF i > Len(rows) THEN minuteRecords
    ELSE IF rows[i][1] = "time_seconds"
    THEN ReadRows(rows, i + 1, prevRecord, prevRecordTime, minuteRecords)
    ELSE
      LET timeSeconds == ParseInt(rows[i][1])
          filled == IF prevRecordTime # NoTime /\ timeSeconds - prevRecordTime > 1
                    THEN GapFill(prevRecordTime, timeSeconds, prevRecord, minuteRecords)
                    ELSE [ prevRecordTime |-> prevRecordTime, recs |-> minuteRecords ]
          record == << rows[i][2][1], rows[i][2][2], rows[i][3][1], rows[i][3][2] >>
      IN IF timeSeconds % SecPerMin = 0
         THEN ReadRows(rows, i + 1, record, timeSeconds, Append(filled.recs, record))
         ELSE ReadRows(rows, i + 1, prevRecord, filled.prevRecordTime, filled.recs)

\* a slip: the joined records are returned whatever their number
DayOfRowsUnchecked(rows) ==
    [ panic |-> FALSE, rec |-> Concat(ReadRows(rows, 1, << >>, NoTime, << >>)) ]

\* downloadDay after the download: the minute records of the rows, joined;
\* a result that is neither empty nor a full day is a panic.
DayOfRows(rows) ==
    LET minuteRecords == ReadRows(rows, 1, << >>, NoTime, << >>)
        fullRec == Concat(minuteRecords)
    IN IF Len(minuteRecords) > 0
       THEN IF Len(fullRec) # numbersPerRecord * minutesInADay
            THEN [ panic |-> TRUE, rec |-> << >> ]
            ELSE [ panic |-> FALSE, rec |-> fullRec ]
       ELSE [ panic |-> FALSE, rec |-> << >> ]

\* a function as an explicit table of its values
Table(f) == f @@ << >>

\* the result of downloadDay for every pair and day, computed once
DayResults ==
    Table([ pair \in Range(defaultPairs) |->
              Table([ day \in 0..2 |-> DayOfRows(RemoteRows(pair, day)) ]) ])

downloadDay(pair, day) == DayResults[pair][day]

\* ------------------------------------------------------------ cache files
\* A date range is <<start, end>> in minutes since the epoch.  The file path
\* is made of the two calendar dates alone.
R1 == << 0, MinPerDay >>            \* day 0 00:00 .. day 1 00:00
R2 == << 0, 2 * MinPerDay >>        \* day 0 00:00 .. day 2 00:00
R3 == << 0, 2 * MinPerDay - 1 >>    \* day 0 00:00 .. day 1, last minute

Ranges == { R1, R2, R3 }

DateOf(t) == t \div MinPerDay      \* Format("2006-01-02")

PathOf(rng) == << DateOf(rng[1]), DateOf(rng[2]) >>

Paths == { PathOf(rng) : rng \in Ranges }

\* int(endDate.Sub(startDate).Minutes())
HistoryLength(rng) == rng[2] - rng[1]

RECURSIVE DaysFromBackwards(_, _)
\* a slip: the days are collected from the last one to the first
DaysFromBackwards(date, endDate) ==
    IF date < endDate
    THEN DaysFromBackwards(date + MinPerDay, endDate) \o << date >>
    ELSE << >>

RECURSIVE DaysFrom(_, _)
\* for date := startDate; date.Before(endDate); date = date.AddDate(0, 0, 1)
DaysFrom(date, endDate) ==
    IF date < endDate THEN << date >> \o DaysFrom(date + MinPerDay, endDate) ELSE << >>

\* A file is a sequence of lines, a line the sequence of its comma-separated
\* fields.  The header is the comment line "#,<pair>,<pair>,...".
NoFile == [ exists |-> FALSE, lines |-> << >> ]

HeaderLine == << "#" >> \o defaultPairs

\* fmt.Sprintf("%s,%s\n", pair, slices.Join(fullRecord, ","))
PairLine(pair, fullRecord) == << pair >> \o fullRecord

IsComment(line) == Len(line) > 0 /\ line[1] = "#"

BodyLines(lines) == SelectSeq(lines, LAMBDA ln : ~IsComment(ln))

\* readPairNamesFromHeader
readPairNamesFromHeader(lines) ==
    IF Len(lines) > 0 /\ IsComment(lines[1]) THEN Tail(lines[1]) ELSE << >>

Max(a, b) == IF a >= b THEN a ELSE b

Abs(a) == IF a >= 0 THEN a ELSE -a

\* a slip: the reader takes the lines of every pair
SkippedNever(pairs, pair) == FALSE

\* the pair filter of the reader: with a pair list, a line of another pair
\* is skipped
Skipped(pairs, pair) == Len(pairs) > 0 /\ ~Contains(pairs, pair)

RECURSIVE ReadRecords(_, _, _, _, _, _, _)
\* the loop of readDepthRecordsFromFile.  fields is the field count the CSV
\* reader expects (FieldsPerRecord = 0: that of the first record, 0 before
\* it); a record of another field count is an error of csvParser.Read.
\* panic is "" for a return, "csv" for the panic with the reader's error and
\* "corrupted" for the panic with the message that ends in the pair.
ReadRecords(lines, i, pairs, recs, historyLength, foundPairs, fields) ==
    IF i > Len(lines)
    THEN [ panic |-> "", pair |-> "", records |-> recs, historyLength |-> historyLength ]
    ELSE IF IsComment(lines[i])
    THEN ReadRecords(lines, i + 1, pairs, recs, historyLength, foundPairs, fields)
    ELSE IF fields # 0 /\ Len(lines[i]) # fields
    THEN [ panic |-> "csv", pair |-> "", records |-> recs, historyLength |-> historyLength ]
    ELSE
      LET record == lines[i]
          pair == record[1]
          depths == Tail(record)
          hl == Max(historyLength, Len(depths) \div 4)
          found == foundPairs \cup { pair }
      IN IF Skipped(pairs, pair)
         THEN ReadRecords(lines, i + 1, pairs, recs, historyLength, foundPairs,
                          Len(record))
         ELSE IF Len(depths) > 0 /\ Len(depths) \div 4 # hl
         THEN [ panic |-> "corrupted", pair |-> pair, records |-> recs,
                historyLength |-> hl ]
         ELSE IF Len(pairs) > 0 /\ Cardinality(found) = Len(pairs)
         THEN [ panic |-> "", pair |-> "", records |-> (pair :> depths) @@ recs,
                historyLength |-> hl ]
         ELSE ReadRecords(lines, i + 1, pairs, (pair :> depths) @@ recs, hl, found,
                          Len(record))

readDepthRecordsFromFile(lines, pairs, recs) ==
    ReadRecords(lines, 1, pairs, recs, 0, { }, 0)

\* ------------------------------------------------------------------ state
VARIABLES
    files,      \* the data/ directory: path -> file
    records,    \* l.records: pair -> series of tokens (a key is a non-nil entry)
    index,      \* l.index
    ticks,      \* number of Tick calls on the store since NewCCDepthLoader
    last        \* the call that has just ended: what it was given, did and returned

vars == << files, records, index, ticks, last >>

EmptyMap == << >>       \* make(map[Pair][]string)

Has(recs, pair) == pair \in DOMAIN recs

Series(recs, pair) == IF Has(recs, pair) THEN recs[pair] ELSE << >>

NoCall ==
    [ op |-> "none", outcome |-> "none", pairs |-> << >>, rng |-> << >>,
      before |-> NoFile, memory |-> EmptyMap, afterRead |-> EmptyMap,
      fetched |-> << >>, result |-> EmptyMap, pair |-> "", record |-> << >>,
      appendHandle |-> "none" ]

Init ==
    /\ files = [ path \in Paths |-> NoFile ]
    /\ records = EmptyMap
    /\ index = 0
    /\ ticks = 0
    /\ last = NoCall

\* ------------------------------------------------------------------- Load
\* last.appendHandle is the handle Load opened for append as the call leaves
\* it: "none" (not opened: a panic before os.OpenFile), "open" or "closed".
\* pairsToLoad when os.Stat finds no file
PairsToLoadNoFile(pairs) == IF Len(pairs) = 0 THEN defaultPairs ELSE << >>

\* a slip: the pairs with an entry in l.records are not filtered out
PairsToLoadFileUnfiltered(pairs, lines, recs) ==
    IF Len(pairs) = 0 THEN readPairNamesFromHeader(lines) ELSE pairs

\* pairsToLoad when the file exists: the pair list, or the header's pairs for
\* an empty list, without the pairs that have an entry in l.records
PairsToLoadFile(pairs, lines, recs) ==
    LET testPairs == IF Len(pairs) = 0 THEN readPairNamesFromHeader(lines) ELSE pairs
    IN SelectSeq(testPairs, LAMBDA s : ~Has(recs, s))

\* slices.MapAsync(days, 30, ...): the result of every day, in the order of days
MapAsync(days, pair) == [ k \in 1..Len(days) |-> downloadDay(pair, DateOf(days[k])) ]

RECURSIVE LoadPairs(_, _, _, _, _, _)
\* slices.Each(pairsToLoad, ...): fetch, store and append pair by pair.  A
\* panic of a day fetch ends the loop where it stands.
LoadPairs(pairsToLoad, i, days, recs, lines, fetched) ==
    IF i > Len(pairsToLoad)
    THEN [ panic |-> FALSE, records |-> recs, lines |-> lines, fetched |-> fetched ]
    ELSE
      LET pair == pairsToLoad[i]
          recordsForEachDay == MapAsync(days, pair)
          fullRecord == Concat([ k \in 1..Len(days) |-> recordsForEachDay[k].rec ])
          log == fetched \o [ k \in 1..Len(days) |-> << pair, DateOf(days[k]) >> ]
      IN IF \E k \in 1..Len(days) : recordsForEachDay[k].panic
         THEN [ panic |-> TRUE, records |-> recs, lines |-> lines, fetched |-> log ]
         ELSE IF Len(fullRecord) = 0
         THEN LoadPairs(pairsToLoad, i + 1, days, recs, lines, log)
         ELSE LoadPairs(pairsToLoad, i + 1, days, (pair :> fullRecord) @@ recs,
                        Append(lines, PairLine(pair, fullRecord)), log)

\* a slip: a difference of exactly the tolerance passes
RangeMismatchAbove(fileHistoryLength, historyLength) ==
    fileHistoryLength # 0 /\ Abs(fileHistoryLength - historyLength) > RangeTolerance

RangeMismatch(fileHistoryLength, historyLength) ==
    fileHistoryLength # 0 /\ Abs(fileHistoryLength - historyLength) >= RangeTolerance

\* Load up to the point where the file is opened for append
LoadRead(pairs, rng, file, recs) ==
    IF file.exists
    THEN LET rd == readDepthRecordsFromFile(file.lines, pairs, recs)
         IN [ panic |-> rd.panic # ""
                        \/ RangeMismatch(rd.historyLength, HistoryLength(rng)),
              records |-> rd.records,
              pairsToLoad |-> PairsToLoadFile(pairs, file.lines, rd.records) ]
    ELSE [ panic |-> FALSE, records |-> recs, pairsToLoad |-> PairsToLoadNoFile(pairs) ]

\* the file as os.OpenFile(O_APPEND|O_CREATE) and the header write leave it
Opened(file) == IF file.exists THEN file.lines ELSE << HeaderLine >>

\* the handle of os.OpenFile as the return of Load leaves it: Load has no
\* file.Close() for it (the deferred Close is that of the handle opened for
\* reading), so it stays open until the collector finalizes it
AppendHandleAtReturn == "open"

Load(pairs, rng) ==
    LET path == PathOf(rng)
        file == files[path]
        rd == LoadRead(pairs, rng, file, records)
        ld == LoadPairs(rd.pairsToLoad, 1, DaysFrom(rng[1], rng[2]), rd.records,
                        Opened(file), << >>)
        call == [ NoCall EXCEPT !.op = "Load", !.pairs = pairs, !.rng = rng,
                                !.before = file, !.memory = records,
                                !.afterRead = rd.records ]
    IN IF rd.panic
       THEN \* panic before the file is opened for append
            /\ records' = rd.records
            /\ last' = [ call EXCEPT !.outcome = "panic" ]
            /\ UNCHANGED << files, index, ticks >>
       ELSE IF ld.panic
       THEN \* panic in a worker goroutine: the process ends, the file stays
            /\ files' = [ files EXCEPT ![path] = [ exists |-> TRUE, lines |-> ld.lines ] ]
            /\ records' = EmptyMap
            /\ index' = 0
            /\ ticks' = 0
            /\ last' = NoCall
       ELSE /\ files' = [ files EXCEPT ![path] = [ exists |-> TRUE, lines |-> ld.lines ] ]
            /\ records' = ld.records
            /\ last' = [ call EXCEPT !.outcome = "returned", !.fetched = ld.fetched,
                                     !.result = ld.records,
                                     !.appendHandle = AppendHandleAtReturn ]
            /\ UNCHANGED << index, ticks >>

\* ------------------------------------------------------- Tick, GetDepth
\* a slip: the cursor moves by one token, not by one record
NextIndexByToken(i) == i + 1

\* Tick: l.index += 4
NextIndex(i) == i + 4

Tick ==
    /\ ticks < MaxTicks
    /\ index' = NextIndex(index)
    /\ ticks' = ticks + 1
    /\ last' = [ NoCall EXCEPT !.op = "Tick", !.outcome = "returned" ]
    /\ UNCHANGED << files, records >>

\* the numbers the tokens of the remote spell
Vals == { Val(pair, t, col) : pair \in ReqPairs, t \in 0..MaxSec, col \in 1..4 }

FloatOf == Table([ n \in Vals |-> ToString(n) ])

NotANumber == -1

\* strconv.ParseFloat: the number a token spells, or a failure
ParseFloat(s) ==
    IF \E n \in Vals : FloatOf[n] = s
    THEN CHOOSE n \in Vals : FloatOf[n] = s
    ELSE NotANumber

\* a slip: past the end of the series the cursor starts again at its head
DepthAtWrapped(recs, i, pair) ==
    LET series == Series(recs, pair)
        at == IF Len(series) = 0 THEN i ELSE i % Len(series)
        record == [ k \in 1..4 |-> ParseFloat(series[at + k]) ]
    IN IF at + 4 > Len(series)
       THEN [ panic |-> TRUE, record |-> << >> ]
       ELSE [ panic |-> FALSE, record |-> record ]

\* GetDepth: the record at l.index, or a panic
DepthAt(recs, i, pair) ==
    LET series == Series(recs, pair)
        record == [ k \in 1..4 |-> ParseFloat(series[i + k]) ]
    IN IF i >= Len(series) \/ i + 4 > Len(series)
       THEN [ panic |-> TRUE, record |-> << >> ]
       ELSE IF \E k \in 1..4 : record[k] = NotANumber
       THEN [ panic |-> TRUE, record |-> << >> ]
       ELSE [ panic |-> FALSE, record |-> record ]

GetDepth(pair) ==
    LET got == DepthAt(records, index, pair)
    IN /\ last' = [ NoCall EXCEPT !.op = "GetDepth", !.pair = pair,
                                  !.outcome = IF got.panic THEN "panic" ELSE "returned",
                                  !.record = got.record ]
       /\ UNCHANGED << files, records, index, ticks >>

\* NewCCDepthLoader: the caller goes on with a new store; the files stay
NewStore ==
    /\ records' = EmptyMap
    /\ index' = 0
    /\ ticks' = 0
    /\ last' = NoCall
    /\ UNCHANGED files

\* the pair lists of at most MaxPairs pairs
AllPairLists == UNION { [ 1..n -> ReqPairs ] : n \in 0..MaxPairs }

\* those that name no pair twice
PairLists == { pairs \in AllPairLists : Cardinality(Range(pairs)) = Len(pairs) }

Next ==
    \/ \E pairs \in PairLists, rng \in Ranges : Load(pairs, rng)
    \/ Tick
    \/ \E pair \in ReqPairs : GetDepth(pair)
    \/ NewStore

Spec == Init /\ [][Next]_vars

\* Callers whose pair lists may name a pair more than once, all on one range.
NextRepeated ==
    \/ \E pairs \in AllPairLists : Load(pairs, R1)
    \/ NewStore

SpecRepeated == Init /\ [][NextRepeated]_vars

\* ------------------------------------------------------------ the claims
Returned(op) == last.op = op /\ last.outcome = "returned"

\* the pairs of the day fetches of the Load that has just ended
FetchedPairs == { last.fetched[i][1] : i \in 1..Len(last.fetched) }

\* the file of the range of the Load that has just ended, as it is now
FileNow == files[PathOf(last.rng)]

\* the series of a pair over a range as the remote has it: the day results of
\* the days of the range, in date order
RangeSeries(pair, rng) ==
    LET days == DaysFrom(rng[1], rng[2])
    IN Concat([ k \in 1..Len(days) |-> DayResults[pair][DateOf(days[k])].rec ])

\* the body lines of a pair
LinesOf(lines, pair) == SelectSeq(BodyLines(lines), LAMBDA ln : ln[1] = pair)

\* the remote has data for the pair on every day of the range
Available(pair, rng) ==
    LET days == DaysFrom(rng[1], rng[2])
    IN \A k \in 1..Len(days) : HasData(pair, DateOf(days[k]))

\* C1: when no cache file exists for the range, Load fetches exactly the
\* pairs of the caller's list (the default pairs for an empty list); on a
\* store with nothing in memory and no cache file, Load([P]) over one day
\* on which P has data returns a full day of tokens for P.
C1_NoFileFetchesRequested ==
    (Returned("Load") /\ ~last.before.exists) =>
        /\ FetchedPairs = Range(IF last.pairs = << >> THEN defaultPairs ELSE last.pairs)
        /\ \A P \in ReqPairs :
              (last.pairs = << P >> /\ last.rng = R1 /\ Available(P, R1))
                  => Len(Series(last.result, P)) = numbersPerRecord * minutesInADay

\* C2: the series returned for every requested pair is the data of the
\* requested range: the date-ordered concatenation of the day results of
\* the range or the body line of the pair in the file of the range.
C2_RequestedRangeData ==
    Returned("Load") =>
        \A P \in Range(last.pairs) :
            Has(last.result, P) =>
                \/ last.result[P] = RangeSeries(P, last.rng)
                \/ \E i \in 1..Len(FileNow.lines) :
                      FileNow.lines[i] = PairLine(P, last.result[P])

\* C3: every requested pair with an entry in the returned map has exactly
\* 4 tokens per minute between start and end.
C3_FourTokensPerMinute ==
    Returned("Load") =>
        \A P \in Range(last.pairs) :
            Has(last.result, P) =>
                Len(last.result[P]) = numbersPerRecord * HistoryLength(last.rng)


\* two Load calls in a row on one store: the step from the state the first
\* call left to the state the second call leaves
LoadAfterLoad ==
    /\ Returned("Load")
    /\ last'.op = "Load" /\ last'.outcome = "returned"
    /\ last'.rng = last.rng

\* C4: Load([A], r) followed by Load([B], r), A and B distinct and with data,
\* returns from the second call a map with the full series of both, and the
\* file then holds one line for A and one line for B.
C4_CumulativeLoad ==
    [][ \A A \in ReqPairs, B \in ReqPairs :
          ( /\ LoadAfterLoad
            /\ A # B /\ last.pairs = << A >> /\ last'.pairs = << B >>
            /\ Available(A, last.rng) /\ Available(B, last.rng) )
          => \A P \in { A, B } :
               /\ Has(last'.result, P)
               /\ last'.result[P] = RangeSeries(P, last.rng)
               /\ LinesOf(files'[PathOf(last.rng)].lines, P)
                    = << PairLine(P, RangeSeries(P, last.rng)) >> ]_vars

\* C5: a second Load in a row with the same pair list and range returns a
\* map equal to the one the first call returned.
C5_SameCallSameMap ==
    [][ (LoadAfterLoad /\ last'.pairs = last.pairs) => last'.result = last.result ]_vars

\* a pair has at most one body line in each file
OneLinePerPair ==
    \A path \in Paths, pair \in Range(defaultPairs) :
        Len(LinesOf(files[path].lines, pair)) <= 1

\* the lines of every file stay as they are: a step only appends
IsPrefix(s, t) == Len(s) <= Len(t) /\ SubSeq(t, 1, Len(s)) = s

\* C6: the cache file holds at most one body line per pair, and no existing
\* line is rewritten or removed, whatever pair lists the callers pass.
C6_NoDuplicateLines ==
    [][ /\ OneLinePerPair'
        /\ \A path \in Paths : IsPrefix(files[path].lines, files'[path].lines) ]_vars

\* the pairs a Load on an existing file is asked for: the list, or the
\* header's pairs for an empty list
AskedPairs ==
    Range(IF last.pairs = << >> THEN readPairNamesFromHeader(last.before.lines)
          ELSE last.pairs)

\* the lines the Load that has just ended appended to the file
Appended == SubSeq(FileNow.lines, Len(last.before.lines) + 1, Len(FileNow.lines))

\* C7: on an existing file, a requested pair with a body line in the file is
\* not fetched and gets no new line; the pairs fetched are the asked pairs
\* that have no entry in memory after the file was read.
C7_CacheHit ==
    (Returned("Load") /\ last.before.exists) =>
        /\ \A P \in Range(last.pairs) :
              Len(LinesOf(last.before.lines, P)) > 0 =>
                  /\ P \notin FetchedPairs
                  /\ LinesOf(Appended, P) = << >>
        /\ FetchedPairs = { P \in AskedPairs : ~Has(last.afterRead, P) }

C7_Witness ==
    /\ Returned("Load") /\ last.before.exists
    /\ \E P \in Range(last.pairs) : Len(LinesOf(last.before.lines, P)) > 0
    /\ \E Q \in Range(last.pairs) : Q \in FetchedPairs /\ Len(LinesOf(Appended, Q)) = 1

\* C8: the returned map has exactly one entry per body line of the file of
\* the range, with the pair and the tokens of the line.
C8_ReturnsFileContent ==
    Returned("Load") =>
        LET body == BodyLines(FileNow.lines)
        IN /\ DOMAIN last.result = { body[i][1] : i \in 1..Len(body) }
           /\ \A i \in 1..Len(body) : last.result[body[i][1]] = Tail(body[i])
           /\ \A i, j \in 1..Len(body) : body[i][1] = body[j][1] => i = j

C10_CursorPosition ==
    /\ index = 4 * ticks
    /\ Returned("GetDepth") =>
          \A k \in 1..4 : ToString(last.record[k]) = records[last.pair][4 * ticks + k]

C10_Witness ==
    /\ Returned("GetDepth")
    /\ ticks >= 2
    /\ Cardinality(DOMAIN records) >= 2

\* C11: Tick succeeds wherever the cursor stands, also past the end of every
\* series, and GetDepth(pair) fails whenever the cursor is at or beyond the
\* length of the pair's series (0 for a pair with no entry): it returns no
\* record then, neither one from the head of the series nor a default one.
C11_CursorOverrun ==
    /\ ticks < MaxTicks => ENABLED Tick
    /\ last.op = "Tick" => last.outcome = "returned"
    /\ (last.op = "GetDepth" /\ index >= Len(Series(records, last.pair)))
          => (last.outcome = "panic" /\ last.record = << >>)

C11_Witness ==
    /\ last.op = "GetDepth" /\ last.outcome = "panic"
    /\ Has(records, last.pair)
    /\ Len(records[last.pair]) > 0
    /\ index >= Len(records[last.pair])

\* every body line of the file is the line a Load over the range appends after
\* fetching the pair
WrittenFor(lines, rng) ==
    \A i \in 1..Len(lines) :
        ~IsComment(lines[i]) =>
            lines[i] = PairLine(lines[i][1], RangeSeries(lines[i][1], rng))

\* C12: when the file of the range holds the line a Load appended for pair P
\* with the non-empty series S it fetched, a Load of P over the same range on
\* a store with nothing in memory returns, and returns exactly S for P.
C12_CacheRoundTrip ==
    ( /\ last.op = "Load" /\ last.memory = EmptyMap
      /\ last.before.exists /\ WrittenFor(last.before.lines, last.rng) )
    => \A P \in Range(last.pairs) :
          LinesOf(last.before.lines, P) # << >> =>
              /\ last.outcome = "returned"
              /\ Series(last.result, P) = Tail(LinesOf(last.before.lines, P)[1])
              /\ Series(last.result, P) = RangeSeries(P, last.rng)

\* ------------------------------------------- the day fetch on its own
\* downloadDay applied to the rows of one day file, for every sequence of rows
\* out of DayInputs.  A row is given by its time stamp; the stamps reach one
\* minute into the next day.
MaxRows == 3        \* longest sequence of rows in any order

DayPair == "BTC-BUSD"

BadStamp == -1      \* a row whose first field is not a number

Stamps == 0..(SecPerDay + SecPerMin - 1)

UpstreamRow(t) ==
    IF t = BadStamp THEN << "x", << "0", "0" >>, << "0", "0" >> >>
    ELSE Row(DayPair, t)

RowsOf(stamps) == << HeaderRow >> \o [ i \in 1..Len(stamps) |-> UpstreamRow(stamps[i]) ]

RECURSIVE SortedSeq(_)
\* the elements of a set of numbers in ascending order
SortedSeq(S) ==
    IF S = { } THEN << >>
    ELSE LET lo == CHOOSE x \in S : \A y \in S : x <= y
         IN << lo >> \o SortedSeq(S \ { lo })

\* time-ascending rows of the day, whichever seconds are missing
AscendingInputs == { SortedSeq(S) : S \in SUBSET (0..(SecPerDay - 1)) }

\* rows in any order, with repeated, foreign and unreadable time stamps
AnyInputs == UNION { [ 1..n -> Stamps \cup { BadStamp } ] : n \in 0..MaxRows }

DayInputs == AscendingInputs \cup AnyInputs

InitDay ==
    /\ files = [ path \in Paths |-> NoFile ]
    /\ records = EmptyMap
    /\ index = 0
    /\ ticks = 0
    /\ last \in { [ op |-> "rows", outcome |-> "none", stamps |-> stamps, rec |-> << >> ] :
                    stamps \in DayInputs }

\* gzip + csv reader + the loop and the length check of downloadDay
DownloadDay ==
    /\ last.op = "rows"
    /\ LET got == DayOfRows(RowsOf(last.stamps))
       IN last' = [ last EXCEPT !.op = "downloadDay",
                                !.outcome = IF got.panic THEN "panic" ELSE "returned",
                                !.rec = got.rec ]
    /\ UNCHANGED << files, records, index, ticks >>

NextDay == DownloadDay

SpecDay == InitDay /\ [][NextDay]_vars

\* the stamps are those of time-ascending rows of the day
AscendingDay(stamps) ==
    /\ \A i \in 1..Len(stamps) : stamps[i] \in 0..(SecPerDay - 1)
    /\ \A i \in 1..(Len(stamps) - 1) : stamps[i] < stamps[i + 1]

\* the 4 tokens of the row of second :00 of minute k of the day
MinuteRecord(k) ==
    LET row == Row(DayPair, k * SecPerMin)
    IN << row[2][1], row[2][2], row[3][1], row[3][2] >>

\* C13: the day fetch returns a full day of tokens, or an empty result when
\* no row gave a minute record, or fails; it returns no other length.
C13_FullDayOrEmpty ==
    (last.op = "downloadDay" /\ last.outcome = "returned") =>
        \/ Len(last.rec) = numbersPerRecord * minutesInADay
        \/ /\ last.rec = << >>
           /\ \A i \in 1..Len(last.stamps) :
                 last.stamps[i] # BadStamp /\ last.stamps[i] % SecPerMin # 0

C13_Witness ==
    /\ last.op = "downloadDay" /\ last.outcome = "returned"
    /\ Len(last.rec) = numbersPerRecord * minutesInADay
    /\ Len(last.stamps) < minutesInADay

\* the rows are time-ascending rows of the day in which the row of second :00
\* of minute m alone is missing among the :00 rows, and a later row is there
OneMinuteMissing(stamps, m) ==
    /\ AscendingDay(stamps)
    /\ \A k \in 0..(MinPerDay - 1) : Contains(stamps, k * SecPerMin) <=> k # m
    /\ \E i \in 1..Len(stamps) : stamps[i] > m * SecPerMin

\* C14: with the :00 row of one minute m missing, the previous minute's :00
\* row and a later row present, the fetch returns the day with the record of
\* minute m - 1 at the place of minute m and every other minute's own record.
C14_CarryForward ==
    \A m \in 1..(MinPerDay - 1) :
        (last.op = "downloadDay" /\ OneMinuteMissing(last.stamps, m)) =>
            /\ last.outcome = "returned"
            /\ last.rec = Concat([ k \in 1..MinPerDay |->
                                     MinuteRecord(IF k - 1 = m THEN m - 1 ELSE k - 1) ])

C14_Witness ==
    /\ last.op = "downloadDay" /\ last.outcome = "returned"
    /\ OneMinuteMissing(last.stamps, MinPerDay - 1)

\* C18: for every non-empty time-ascending sequence of rows of the day,
\* whichever seconds are missing, the fetch returns one record for every
\* minute of the day.
C18_EveryMinute ==
    (last.op = "downloadDay" /\ AscendingDay(last.stamps) /\ last.stamps # << >>) =>
        /\ last.outcome = "returned"
        /\ Len(last.rec) = numbersPerRecord * minutesInADay

\* ------------------------------------------ the file reader on its own
\* readDepthRecordsFromFile applied by a new store to every file out of
\* FileInputs (the header and up to MaxLines body lines of up to MaxTokens
\* tokens) with every pair list without repetition.
MaxLines == 2       \* body lines of a file
MaxTokens == 9      \* tokens of a body line

TokensOf(n) == [ k \in 1..n |-> ToString(k) ]

BodyLineInputs == { PairLine(pair, TokensOf(n)) : pair \in ReqPairs, n \in 0..MaxTokens }

FileInputs ==
    { << HeaderLine >> \o body : body \in UNION { [ 1..n -> BodyLineInputs ] : n \in 0..MaxLines } }

InitFile ==
    /\ files = [ path \in Paths |-> NoFile ]
    /\ records = EmptyMap
    /\ index = 0
    /\ ticks = 0
    /\ last \in { [ op |-> "file", lines |-> lines, pairs |-> << >>, panic |-> "",
                    named |-> "", historyLength |-> 0, result |-> EmptyMap ] :
                    lines \in FileInputs }

ReadFile(pairs) ==
    /\ last.op = "file"
    /\ LET rd == readDepthRecordsFromFile(last.lines, pairs, EmptyMap)
       IN last' = [ last EXCEPT !.op = "readDepthRecordsFromFile", !.pairs = pairs,
                                !.panic = rd.panic, !.named = rd.pair,
                                !.historyLength = rd.historyLength,
                                !.result = rd.records ]
    /\ UNCHANGED << files, records, index, ticks >>

NextFile == \E pairs \in PairLists : ReadFile(pairs)

SpecFile == InitFile /\ [][NextFile]_vars

\* the body lines of the file that pass the pair filter of the call
PassingLines == SelectSeq(BodyLines(last.lines), LAMBDA ln : ~Skipped(last.pairs, ln[1]))

\* C15: reading a file in which a body line that passes the pair filter has a
\* number of tokens that is not a multiple of 4 fails with the corruption
\* error that names the pair of such a line.
C15_MultipleOfFour ==
    ( /\ last.op = "readDepthRecordsFromFile"
      /\ \E i \in 1..Len(PassingLines) : (Len(PassingLines[i]) - 1) % 4 # 0 )
    => /\ last.panic = "corrupted"
       /\ \E i \in 1..Len(PassingLines) :
             (Len(PassingLines[i]) - 1) % 4 # 0 /\ last.named = PassingLines[i][1]

\* C16: reading a file in which two body lines differ in history length
\* (tokens / 4) fails with the corruption error that names the pair of a line
\* that deviates from a line before it, whatever the pair filter.
C16_ConsistentHistoryLength ==
    LET body == BodyLines(last.lines)
        Deviates(j) == \E i \in 1..(j - 1) :
                           (Len(body[i]) - 1) \div 4 # (Len(body[j]) - 1) \div 4
    IN ( /\ last.op = "readDepthRecordsFromFile"
         /\ \E j \in 1..Len(body) : Deviates(j) )
       => /\ last.panic = "corrupted"
          /\ \E j \in 1..Len(body) : Deviates(j) /\ last.named = body[j][1]

\* what the reader of the Load that has just ended made of the file it found
ReadBefore == readDepthRecordsFromFile(last.before.lines, last.pairs, last.memory)

\* the history length the reader observed is not 0 and is at least the
\* tolerance away from the minutes of the requested range
OutOfBand ==
    LET observed == ReadBefore.historyLength
        wanted == HistoryLength(last.rng)
    IN /\ observed # 0
       /\ observed - wanted >= RangeTolerance \/ wanted - observed >= RangeTolerance

\* C17: a Load on an existing file that the reader has read through fails,
\* with nothing fetched and the file as it was, exactly when the observed
\* history length is out of the tolerance band; otherwise it goes on.
C17_RangeMismatch ==
    (last.op = "Load" /\ last.before.exists /\ ReadBefore.panic = "") =>
        /\ OutOfBand => /\ last.outcome = "panic"
                        /\ last.fetched = << >>
                        /\ FileNow = last.before
        /\ ~OutOfBand => last.outcome = "returned"

C17_Witness ==
    /\ last.op = "Load" /\ last.before.exists /\ ReadBefore.panic = ""
    /\ OutOfBand
    /\ last.outcome = "panic"
    /\ Abs(ReadBefore.historyLength - HistoryLength(last.rng)) = RangeTolerance

\* ------------------------------------- the day fetches of one pair, step by step
\* slices.MapAsync(days, 30, ...) as a pool of workers: the indices of the days
\* go through a channel in order, a free worker takes the next one, the
\* fetches in flight end in any order, each result is stored at the index of
\* its day, and the caller goes on when every worker is done.  The width of
\* the pool is scaled down with the number of days.
MaxWorkers == 2     \* width of the pool (30 in the call)

Min(a, b) == IF a <= b THEN a ELSE b

\* the ranges of whole days within the days the remote is modelled for
AsyncRanges ==
    { rng \in { << d * MinPerDay, (d + n) * MinPerDay >> : d \in 0..2, n \in 1..3 } :
        rng[2] <= 3 * MinPerDay }

Pending == [ done |-> FALSE, rec |-> << >> ]

InitAsync ==
    /\ files = [ path \in Paths |-> NoFile ]
    /\ records = EmptyMap
    /\ index = 0
    /\ ticks = 0
    /\ last \in { [ op |-> "MapAsync", pair |-> pair, rng |-> rng,
                    days |-> DaysFrom(rng[1], rng[2]), next |-> 1, running |-> { },
                    result |-> [ k \in 1..Len(DaysFrom(rng[1], rng[2])) |-> Pending ],
                    order |-> << >>, series |-> << >> ] :
                    pair \in ReqPairs, rng \in AsyncRanges }

\* a free worker receives the next index from the jobs channel
TakeJob ==
    /\ last.op = "MapAsync"
    /\ last.next <= Len(last.days)
    /\ Cardinality(last.running) < Min(MaxWorkers, Len(last.days))
    /\ last' = [ last EXCEPT !.running = @ \cup { last.next }, !.next = @ + 1 ]
    /\ UNCHANGED << files, records, index, ticks >>

\* the fetch of the day at index k ends: result[k] = downloadDay(pair, days[k])
FinishJob(k) ==
    /\ last.op = "MapAsync"
    /\ k \in last.running
    /\ LET got == downloadDay(last.pair, DateOf(last.days[k]))
       IN last' = [ last EXCEPT !.op = IF got.panic THEN "crashed" ELSE "MapAsync",
                                !.running = @ \ { k },
                                !.result[k] = [ done |-> TRUE, rec |-> got.rec ],
                                !.order = Append(@, k) ]
    /\ UNCHANGED << files, records, index, ticks >>

\* every worker is done: fullRecord = slices.Concat(recordsForEachDay...)
JoinDays ==
    /\ last.op = "MapAsync"
    /\ last.next > Len(last.days)
    /\ last.running = { }
    /\ last' = [ last EXCEPT !.op = "joined",
                             !.series = Concat([ k \in 1..Len(last.days) |->
                                                   last.result[k].rec ]) ]
    /\ UNCHANGED << files, records, index, ticks >>

NextAsync ==
    \/ TakeJob
    \/ \E k \in 1..3 : FinishJob(k)
    \/ JoinDays

SpecAsync == InitAsync /\ [][NextAsync]_vars

\* the day results of the calendar days of [start, end), first day first
Chronological(pair, rng) ==
    Concat([ k \in 1..((rng[2] - rng[1]) \div MinPerDay) |->
               DayResults[pair][DateOf(rng[1]) + k - 1].rec ])

\* C19: at most the width of the pool fetches are in flight, and whatever the
\* order in which the fetches end, the series is the day results of the days
\* of [start, end) in date order, each once.
C19_DateOrder ==
    /\ Cardinality(last.running) <= MaxWorkers
    /\ \A k \in last.running : ~last.result[k].done
    /\ last.op = "joined" =>
          /\ last.series = Chronological(last.pair, last.rng)
          /\ \A k \in 1..Len(last.days) :
                Cardinality({ i \in 1..Len(last.order) : last.order[i] = k }) = 1

C19_Witness ==
    /\ last.op = "joined"
    /\ Len(last.days) > MaxWorkers
    /\ \E i \in 1..(Len(last.order) - 1) : last.order[i] > last.order[i + 1]
    /\ last.series # << >>

\* ------------------------------------------------ getURL on its own
\* One activation of getURL issues the request and handles the response; on a
\* rate-limit response it calls itself.  A response is given by what the
\* code looks at: whether the transport failed, what kind of text the body
\* is, whether the body holds the rate-limit marker, and the "urls" entry.
MaxResponses == 3   \* responses followed for one call of getURL

\* json: "neterr" (http.Get or io.ReadAll failed), "invalid" (not JSON),
\* "other" (JSON, but no object: a string, a list, a number), "object"
Body(json, marker, hasUrls, urls) ==
    [ json |-> json, marker |-> marker, hasUrls |-> hasUrls, urls |-> urls ]

Bodies ==
    { Body("neterr", FALSE, FALSE, << >>) }
      \cup { Body(j, m, FALSE, << >>) : j \in { "invalid", "other" }, m \in BOOLEAN }
      \cup { Body("object", m, hu[1], hu[2]) :
               m \in BOOLEAN,
               hu \in { << FALSE, << >> >>, << TRUE, << >> >>,
                        << TRUE, << "u1" >> >>, << TRUE, << "u2", "u1" >> >> } }

\* json.Unmarshal(body, &result) with result a map: an error unless the body
\* is a JSON object
UnmarshalFails(body) == body.json # "object"

\* a slip: every body that does not decode is taken for a rate-limit response
AfterResponseRetryAll(body) ==
    IF body.json = "neterr" THEN [ act |-> "panic", url |-> "" ]
    ELSE IF UnmarshalFails(body) THEN [ act |-> "retry", url |-> "" ]
    ELSE IF body.hasUrls /\ Len(body.urls) > 0
    THEN [ act |-> "return", url |-> body.urls[1] ]
    ELSE [ act |-> "panic", url |-> "" ]

\* getURL from the response on: retry, panic or return the first URL
AfterResponse(body) ==
    IF body.json = "neterr" THEN [ act |-> "panic", url |-> "" ]
    ELSE IF UnmarshalFails(body)
    THEN IF body.marker THEN [ act |-> "retry", url |-> "" ]
         ELSE [ act |-> "panic", url |-> "" ]
    ELSE IF ~body.hasUrls THEN [ act |-> "panic", url |-> "" ]
    ELSE IF Len(body.urls) > 0 THEN [ act |-> "return", url |-> body.urls[1] ]
    ELSE [ act |-> "panic", url |-> "" ]

\* the request of getURL(pair, date)
Request(pair, day) == << "market-depth", pair, day >>

InitURL ==
    /\ files = [ path \in Paths |-> NoFile ]
    /\ records = EmptyMap
    /\ index = 0
    /\ ticks = 0
    /\ last \in { [ op |-> "getURL", pair |-> pair, day |-> day, outcome |-> "pending",
                    requests |-> << Request(pair, day) >>, responses |-> << >>,
                    url |-> "" ] : pair \in ReqPairs, day \in 0..2 }

\* the request in flight is answered and the activation of getURL that issued
\* it runs to its end or to its call of getURL
getURL(body) ==
    /\ last.op = "getURL" /\ last.outcome = "pending"
    /\ Len(last.responses) < MaxResponses
    /\ LET after == AfterResponse(body)
       IN last' = [ last EXCEPT
                      !.responses = Append(@, body),
                      !.requests = IF after.act = "retry"
                                   THEN Append(@, Request(last.pair, last.day)) ELSE @,
                      !.outcome = CASE after.act = "retry" -> "pending"
                                    [] after.act = "return" -> "returned"
                                    [] OTHER -> "panic",
                      !.url = after.url ]
    /\ UNCHANGED << files, records, index, ticks >>

NextURL == \E body \in Bodies : getURL(body)

SpecURL == InitURL /\ [][NextURL]_vars

\* the body holds the marker and is no JSON text at all
RateLimited(body) == body.json = "invalid" /\ body.marker

\* the body holds the marker and does not decode as a JSON object
RateLimitedUndecoded(body) == body.json \in { "invalid", "other" } /\ body.marker

\* C20: a request follows response i exactly when its body is not valid JSON
\* and holds the marker, and it is the same request; after n such responses
\* and a JSON body with a non-empty URL list the call has issued n + 1
\* requests and returns the first URL; a body that is not JSON and has no
\* marker, and an empty URL list, end the call in a panic with no retry.
C20_RetryWhenRateLimited ==
    last.op = "getURL" =>
        LET n == Len(last.responses)
        IN /\ \A i \in 1..n : (i < Len(last.requests)) <=> RateLimited(last.responses[i])
           /\ \A i \in 1..Len(last.requests) : last.requests[i] = last.requests[1]
           /\ last.outcome = "returned" =>
                 /\ Len(last.requests) = n
                 /\ last.url = last.responses[n].urls[1]
           /\ (n > 0 /\ ( \/ last.responses[n].json = "invalid" /\ ~last.responses[n].marker
                          \/ /\ last.responses[n].json = "object"
                             /\ last.responses[n].hasUrls /\ last.responses[n].urls = << >> ))
                 => (last.outcome = "panic" /\ Len(last.requests) = n)

\* C20 as amended: a request follows response i exactly when its body does
\* not decode as a JSON object and holds the marker; the rest as in C20.
C20_RetryWhenUndecoded ==
    last.op = "getURL" =>
        LET n == Len(last.responses)
        IN /\ \A i \in 1..n :
                 (i < Len(last.requests)) <=> RateLimitedUndecoded(last.responses[i])
           /\ \A i \in 1..Len(last.requests) : last.requests[i] = last.requests[1]
           /\ last.outcome = "returned" =>
                 /\ Len(last.requests) = n
                 /\ last.url = last.responses[n].urls[1]
           /\ (n > 0 /\ ( \/ last.responses[n].json = "invalid" /\ ~last.responses[n].marker
                          \/ /\ last.responses[n].json = "object"
                             /\ last.responses[n].hasUrls /\ last.responses[n].urls = << >> ))
                 => (last.outcome = "panic" /\ Len(last.requests) = n)

C20_Witness ==
    /\ last.op = "getURL" /\ last.outcome = "returned"
    /\ Len(last.requests) = MaxResponses
    /\ \E i \in 1..Len(last.responses) : last.responses[i].json = "other"
    /\ Len(last.responses[Len(last.responses)].urls) > 1

\* C21: the handle Load opens for append is closed by the time the call
\* ends, whether it returns after fetching, returns with nothing to fetch or
\* ends in a panic, so no Load leaves an append handle open behind it.
C21_AppendHandleReleased ==
    last.op = "Load" => last.appendHandle # "open"

\* the pairs the Load that has just ended fetched with an empty result on
\* every day of the range
FetchedEmpty == { P \in FetchedPairs : RangeSeries(P, last.rng) = << >> }

\* C22: a pair whose day fetches all return empty gets no entry in memory and
\* no line in the file, and the pairs after it are still fetched; the next
\* Load on the same range that asks for the pair, by name or with the empty
\* list, fetches it again.
C22_EmptyPairRetried ==
    [][ \A P \in Range(defaultPairs) :
          (Returned("Load") /\ P \in FetchedEmpty) =>
              /\ ~Has(last.result, P)
              /\ LinesOf(FileNow.lines, P) = << >>
              /\ FetchedPairs =
                   IF last.before.exists
                   THEN { Q \in AskedPairs : ~Has(last.afterRead, Q) }
                   ELSE Range(IF last.pairs = << >> THEN defaultPairs ELSE last.pairs)
              /\ ( /\ last'.op = "Load" /\ last'.rng = last.rng
                   /\ (last'.pairs = << >> \/ Contains(last'.pairs, P)) )
                 => \E i \in 1..Len(last'.fetched) : last'.fetched[i][1] = P ]_vars

====
